---- MODULE Spec2Model ----
(***************************************************************************)
(* A model of the BingX client of PersonalPythonBot: the signed request    *)
(* builder, the retrying API client (the web backend app.py and the        *)
(* command-line report trading_bot.py), the account aggregator, the       *)
(* signal evaluator and the decision loop.                                 *)
(*                                                                         *)
(* A handler runs in steps that end where the code blocks: at a network    *)
(* request (NetAttempt), at time.sleep(1) (SleepDone) and at the return of *)
(* safe_api_call into its caller (Resume).                                 *)
(***************************************************************************)
EXTENDS Integers, Sequences, FiniteSets, TLC

VARIABLES
    current_keys,   \* app.py: the process-wide credential
    cli_keys,       \* trading_bot.py: API_KEY, API_SECRET loaded at import
    task,           \* the handler that is running, or Idle
    call,           \* the frame of the safe_api_call in progress, or NoCall
    tasks,          \* number of handlers that have completed
    program,        \* which program this process runs: "app" or "cli"
    sg,             \* harness of sign_request: inputs and results
    ev,             \* harness of evaluate: inputs and result
    lp              \* the decision loop: where it is and what this cycle holds

vars == <<current_keys, cli_keys, task, call, tasks, program, sg, ev, lp>>

----------------------------------------------------------------------------
(* Program constants and bounds *)

MAX_RETRIES == 3

MaxTasks == 2
MaxPos == 2
MaxSignParams == 3
MaxBars == 22

----------------------------------------------------------------------------
(* Python values *)

\* None, where a string is expected (os.getenv of an unset variable)
NONE == "<None>"

\* truth value of a string or None: "not x"
Falsy(x) == x = NONE \/ x = ""

\* dict.get(k, default) on a record that lists the keys it holds
Get(d, k, default) == IF k \in d.keys THEN d[k] ELSE default

\* float(): the float nearest to the decimal text, named by the tenths k of
\* the text (Double(k) is that float, exactly)
Float(s) ==
    CASE s = "0"    -> 0
      [] s = "0.0"  -> 0
      [] s = "1"    -> 10
      [] s = "-1"   -> -10
      [] s = "0.1"  -> 1
      [] s = "-0.5" -> -5
      [] s = "1.5"  -> 15
      [] s = "2.5"  -> 25
      [] s = "-2.5" -> -25
      [] s = "4"    -> 40
      [] s = "7.5"  -> 75

\* str.upper() on the side texts
Upper(s) ==
    CASE s = "long"  -> "LONG"
      [] s = "short" -> "SHORT"
      [] OTHER       -> s

----------------------------------------------------------------------------
(* A dict of request parameters: the (key, value) pairs in insertion order *)

HasKey(d, k) == \E i \in 1..Len(d) : d[i][1] = k

DictGet(d, k) == d[CHOOSE i \in 1..Len(d) : d[i][1] = k][2]

DictSet(d, k, v) ==
    IF HasKey(d, k)
    THEN [i \in 1..Len(d) |-> IF d[i][1] = k THEN <<k, v>> ELSE d[i]]
    ELSE Append(d, <<k, v>>)

DictKeys(d) == [i \in 1..Len(d) |-> d[i][1]]

\* the parameter names in use, in the order of Python's string comparison
KeyOrder == <<"limit", "signature", "symbol", "timestamp">>

KeyRank(k) == CHOOSE i \in 1..Len(KeyOrder) : KeyOrder[i] = k

RECURSIVE InsertSorted(_, _)
InsertSorted(k, s) ==
    IF s = <<>> THEN <<k>>
    ELSE IF KeyRank(k) <= KeyRank(Head(s)) THEN <<k>> \o s
    ELSE <<Head(s)>> \o InsertSorted(k, Tail(s))

RECURSIVE SortKeys(_)
SortKeys(ks) ==
    IF ks = <<>> THEN <<>> ELSE InsertSorted(Head(ks), SortKeys(Tail(ks)))

\* sorted(params): the keys of the dict, ascending
SortedKeysInsertionOrder(params) == DictKeys(params)
sorted(params) == SortKeys(DictKeys(params))

RECURSIVE Join(_)
Join(parts) ==
    IF parts = <<>> THEN ""
    ELSE IF Len(parts) = 1 THEN parts[1]
    ELSE parts[1] \o "&" \o Join(Tail(parts))

\* the string that is signed: '&'.join(f"{k}={params[k]}" for k in sorted(params))
Query(params) ==
    LET ks == sorted(params)
    IN  Join([i \in 1..Len(ks) |-> ks[i] \o "=" \o DictGet(params, ks[i])])

\* hmac.new(secret, msg, sha256).hexdigest(): a digest determined by, and
\* determining, the key and the message
HmacSha256Hex(secret, msg) == "hmac(" \o secret \o ";" \o msg \o ")"

sign_request(params, secret) == HmacSha256Hex(secret, Query(params))

----------------------------------------------------------------------------
(* The exchange: endpoints and what a request to them can come back with *)

EP_PERP_BALANCE   == "/openApi/swap/v2/user/balance"
EP_STD_BALANCE    == "/openApi/contract/v1/balance"
EP_PERP_POSITIONS == "/openApi/swap/v2/user/positions"
EP_STD_POSITIONS  == "/openApi/contract/v1/allPosition"
EP_STD_ORDERS     == "/openApi/contract/v1/allOrders"

Endpoints ==
    {EP_PERP_BALANCE, EP_STD_BALANCE, EP_PERP_POSITIONS, EP_STD_POSITIONS,
     EP_STD_ORDERS}

PositionKeys == {"symbol", "positionSide", "positionAmt", "unrealizedProfit", "margin"}

\* Position entries as the exchange sends them. A key that is not in "keys" is
\* absent from the entry.
RawPositions ==
    { [keys |-> PositionKeys, symbol |-> "BTC-USDT", positionSide |-> "LONG",
       positionAmt |-> "0.0", unrealizedProfit |-> "2.5", margin |-> "4"],
      [keys |-> PositionKeys \ {"positionAmt"}, symbol |-> "ETH-USDT",
       positionSide |-> "SHORT", positionAmt |-> "0", unrealizedProfit |-> "-2.5",
       margin |-> "1"],
      [keys |-> PositionKeys \ {"positionSide"}, symbol |-> "BTC-USDT",
       positionSide |-> "", positionAmt |-> "1.5", unrealizedProfit |-> "0.1",
       margin |-> "4"],
      [keys |-> PositionKeys, symbol |-> "ETH-USDT", positionSide |-> "",
       positionAmt |-> "-1", unrealizedProfit |-> "-0.5", margin |-> "1"],
      [keys |-> PositionKeys, symbol |-> "ETH-USDT", positionSide |-> "long",
       positionAmt |-> "1", unrealizedProfit |-> "0", margin |-> "1"] }

PositionLists == UNION {[1..n -> RawPositions] : n \in 0..MaxPos}

EmptyDict == [keys |-> {}]

PerpBalanceDicts ==
    { EmptyDict,
      [keys |-> {"balance", "availableMargin", "unrealizedProfit"},
       balance |-> "7.5", availableMargin |-> "4", unrealizedProfit |-> "1.5"] }

StdBalanceDicts ==
    { [keys |-> {"balance", "available", "unrealizedProfit"},
       balance |-> "2.5", available |-> "1", unrealizedProfit |-> "-1"] }

StdBalanceLists == {<<>>} \cup {<<b>> : b \in StdBalanceDicts}

OrderLists ==
    { <<>>,
      <<[keys |-> {"symbol", "side"}, symbol |-> "BTC-USDT", side |-> "BUY"]>> }

\* response.json() succeeded: the envelope {"code": ..., "data": ...}
JsonOk(data) == [kind |-> "json", code |-> 0, keys |-> {"code", "data"}, data |-> data]
JsonRejected == [kind |-> "json", code |-> 100001, keys |-> {"code", "msg"}]
\* response.json() failed: response.text
TextBodies == {[kind |-> "text", text |-> "<html>"], [kind |-> "text", text |-> ""]}

Payloads(endpoint) ==
    CASE endpoint = EP_PERP_BALANCE   -> {[keys |-> {"balance"}, balance |-> b] : b \in PerpBalanceDicts}
      [] endpoint = EP_STD_BALANCE    -> StdBalanceLists
      [] endpoint = EP_PERP_POSITIONS -> PositionLists
      [] endpoint = EP_STD_POSITIONS  -> PositionLists
      [] endpoint = EP_STD_ORDERS     -> OrderLists

Bodies(endpoint) ==
    {JsonOk(d) : d \in Payloads(endpoint)} \cup {JsonRejected} \cup TextBodies

\* what one requests.get / requests.post ends in
Outcomes(endpoint) ==
    { [kind |-> "timeout"], [kind |-> "error", msg |-> "ConnectionError"],
      [kind |-> "error", msg |-> "SSLError"] }
    \cup {[kind |-> "response", body |-> b] : b \in Bodies(endpoint)}

\* int(time.time() * 1000) at the start of a call: the clock has moved on
\* with every handler served and every call made before this one
ClockBase == 1000
Clock(done, fetched) == ClockBase + 100 * done + 10 * fetched

----------------------------------------------------------------------------
(* safe_api_call *)

NoCall == [phase |-> "none"]

PyNone == [kind |-> "none"]

Returned(data) == [kind |-> "return", data |-> data]
HTTPException(status, detail) ==
    [kind |-> "raise", exc |-> "HTTPException", status |-> status, detail |-> detail]
Raised(exc) == [kind |-> "raise", exc |-> exc, status |-> 0, detail |-> ""]

Unauthenticated401 == HTTPException(401, "Cles API non configurees")

Frame(client, endpoint, method, params, key) ==
    [phase |-> "request", client |-> client, endpoint |-> endpoint,
     method |-> method, params |-> params, headers |-> [XBXAPIKEY |-> key],
     attempt |-> 0, history |-> <<>>, errors |-> <<>>, sent |-> <<>>, sleeps |-> 0,
     log |-> "",
     response |-> PyNone, ret |-> [kind |-> "pending"]]

\* the call up to its first request: the credential check (app.py only),
\* the timestamp, the signature and the header
CredentialMissingKeyOnly(client, keys) ==
    client = "app" /\ Falsy(keys.api_key)
CredentialMissing(client, keys) ==
    client = "app" /\ (Falsy(keys.api_key) \/ Falsy(keys.api_secret))

Stamp(params, now) == DictSet(params, "timestamp", ToString(now))

SafeApiCallEnter(client, keys, endpoint, params, method, now) ==
    IF CredentialMissing(client, keys)
    THEN [Frame(client, endpoint, method, params, keys.api_key)
            EXCEPT !.phase = "raised", !.ret = Unauthenticated401]
    ELSE LET stamped == Stamp(params, now)
         IN  IF keys.api_secret = NONE
             THEN [Frame(client, endpoint, method, stamped, keys.api_key)
                     EXCEPT !.phase = "raised", !.ret = Raised("AttributeError")]
             ELSE Frame(client, endpoint, method,
                        DictSet(stamped, "signature",
                                sign_request(stamped, keys.api_secret)),
                        keys.api_key)

\* app.py sends only for GET and POST; any other method leaves "response"
\* unbound and the attempt ends in an UnboundLocalError without a request
Sends(c) == c.client = "cli" \/ c.method \in {"GET", "POST"}

Request(c) ==
    [endpoint |-> c.endpoint, method |-> c.method, params |-> c.params,
     headers |-> c.headers]

LastAttemptOffByOne(c) == ~(c.attempt < MAX_RETRIES)
LastAttempt(c) == ~(c.attempt < MAX_RETRIES - 1)

\* the error that ends the call on its last attempt
ExhaustedByFirstFailure(c, o) ==
    IF c.client = "app"
    THEN IF c.history[1] = "timeout"
         THEN [c EXCEPT !.phase = "raised", !.ret = HTTPException(504, "API Timeout")]
         ELSE [c EXCEPT !.phase = "raised",
                        !.ret = HTTPException(502, "Erreur API: " \o c.errors[1])]
    ELSE [c EXCEPT !.phase = "returned", !.ret = Returned(PyNone),
                   !.log = "Erreur: " \o c.errors[1]]
Exhausted(c, o) ==
    IF c.client = "app"
    THEN IF o.kind = "timeout"
         THEN [c EXCEPT !.phase = "raised", !.ret = HTTPException(504, "API Timeout")]
         ELSE [c EXCEPT !.phase = "raised",
                        !.ret = HTTPException(502, "Erreur API: " \o o.msg)]
    ELSE IF o.kind = "timeout"
         THEN [c EXCEPT !.phase = "returned", !.ret = Returned(PyNone),
                        !.log = "Erreur: Timeout apres 3 tentatives"]
         ELSE [c EXCEPT !.phase = "returned", !.ret = Returned(PyNone),
                        !.log = "Erreur: " \o o.msg]

\* one pass of the retry loop, given what the request ended in
HandleRetryingOnContent(c, o) ==
    IF o.kind = "response" /\ o.body.kind = "json" /\ o.body.code = 0
    THEN [c EXCEPT !.phase = "returned", !.ret = Returned(o.body)]
    ELSE IF LastAttempt(c)
         THEN IF o.kind = "response"
              THEN [c EXCEPT !.phase = "returned", !.ret = Returned(o.body)]
              ELSE Exhausted(c, o)
         ELSE [c EXCEPT !.phase = "sleep"]
HandleRaisingOnContent(c, o) ==
    IF o.kind = "response"
    THEN IF o.body.kind = "json" /\ o.body.code = 0
         THEN [c EXCEPT !.phase = "returned", !.ret = Returned(o.body)]
         ELSE [c EXCEPT !.phase = "raised",
                        !.ret = HTTPException(502, "Erreur API: bad response")]
    ELSE IF LastAttempt(c) THEN Exhausted(c, o)
         ELSE [c EXCEPT !.phase = "sleep"]
Handle(c, o) ==
    IF o.kind = "response"
    THEN [c EXCEPT !.phase = "returned", !.ret = Returned(o.body)]
    ELSE IF LastAttempt(c) THEN Exhausted(c, o)
         ELSE [c EXCEPT !.phase = "sleep"]

\* str(e) of the exception a request ended in, "" if it ended in none
ErrorText(o) ==
    CASE o.kind = "timeout"  -> "ReadTimeout"
      [] o.kind = "error"    -> o.msg
      [] o.kind = "response" -> ""

\* "history", "errors", "sent" and "response" record what the pass did: how
\* the request ended, the exception it raised, the request that went out, the
\* body of a completed exchange
AfterAttempt(c, o) ==
    Handle([c EXCEPT !.history = Append(@, o.kind),
                     !.errors = Append(@, ErrorText(o)),
                     !.sent = IF Sends(c) THEN Append(@, Request(c)) ELSE @,
                     !.response = IF o.kind = "response" THEN o.body ELSE @], o)

\* time.sleep(1) is over: the next pass of the loop
AfterSleepStampingAgain(c) ==
    [c EXCEPT !.phase = "request", !.attempt = @ + 1, !.sleeps = @ + 1,
              !.params = Stamp(@, ClockBase + c.attempt + 1)]
AfterSleep(c) ==
    [c EXCEPT !.phase = "request", !.attempt = @ + 1, !.sleeps = @ + 1]

----------------------------------------------------------------------------
(* Account aggregator: shared pieces *)

Some(v) == [kind |-> "some", value |-> v]

\* "not data" for what safe_api_call returned
DataFalsy(data) == data.kind = "none" \/ (data.kind = "text" /\ data.text = "")

\* isinstance(data, dict)
IsDict(data) == data.kind = "json"

\* [p for p in positions_list if float(p.get('positionAmt', 0)) != 0]
IsOpenPositiveOnly(p) == Float(Get(p, "positionAmt", "0")) > 0
IsOpen(p) == Float(Get(p, "positionAmt", "0")) # 0

OpenPositions(positions_list) == SelectSeq(positions_list, IsOpen)

RECURSIVE SumSeq(_)
SumSeq(s) == IF s = <<>> THEN 0 ELSE Head(s) + SumSeq(Tail(s))

----------------------------------------------------------------------------
(* Sums of floats. A float (IEEE 754 binary64) is held exactly as            *)
(* [t |-> k, d |-> e], the value (k * 2^56 + e) / (10 * 2^56): k tenths and   *)
(* e units of 1 / (10 * 2^56). The floats between 2^(j-4) and 2^(j-3) are    *)
(* 2^j * 2^-56 apart, that is 10 * 2^j units.                                 *)

\* 2^n % 5
Pow2Mod5(n) ==
    CASE n % 4 = 0 -> 1
      [] n % 4 = 1 -> 2
      [] n % 4 = 2 -> 4
      [] n % 4 = 3 -> 3

\* j for a value of k tenths and e units, k >= 1: the value is at least
\* 2^(j-4) and less than 2^(j-3)
GridExp(k, e) ==
    LET below(p) == k < p \/ (k = p /\ e < 0)
    IN  IF k < 2 THEN 0
        ELSE IF k < 3 THEN 1
        ELSE IF below(5) THEN 2
        ELSE IF below(10) THEN 3
        ELSE IF below(20) THEN 4
        ELSE IF below(40) THEN 5
        ELSE IF below(80) THEN 6
        ELSE 7

\* the float nearest to the exact value of k tenths and e units, ties to the
\* even one: what a float operation with that exact result gives
Nearest(k, e) ==
    IF k = 0 THEN [t |-> 0, d |-> e]
    ELSE LET ak == IF k < 0 THEN -k ELSE k
             ae == IF k < 0 THEN -e ELSE e
             j == GridExp(ak, ae)
             M == 10 * 2^j
             P == 2^(j + 2) * Pow2Mod5(54 - j)
             x == (ak * P + ae + 2000 * M) % (2 * M)
             r == x % M
             adj == IF r = 0 THEN 0
                    ELSE IF 2 * r < M THEN -r
                    ELSE IF 2 * r > M THEN M - r
                    ELSE IF x \div M = 1 THEN M - r ELSE -r
         IN  [t |-> k, d |-> IF k < 0 THEN -(ae + adj) ELSE e + adj]

\* the float of a decimal text of k tenths
Double(k) == Nearest(k, 0)

\* a + b on floats (the operands are evaluated once)
FloatAdd(a, b) ==
    CHOOSE sum \in {Nearest(x.t + y.t, x.d + y.d) : x \in {a}, y \in {b}} : TRUE

\* a - b on floats
FloatSub(a, b) ==
    CHOOSE diff \in {Nearest(x.t - y.t, x.d - y.d) : x \in {a}, y \in {b}} : TRUE

\* fabs(a) >= fabs(b)
FabsGE(a, b) ==
    LET fabs(v) == IF v.t < 0 \/ (v.t = 0 /\ v.d < 0)
                   THEN [t |-> -v.t, d |-> -v.d] ELSE v
        x == fabs(a)
        y == fabs(b)
    IN  x.t > y.t \/ (x.t = y.t /\ x.d >= y.d)

\* The builtin sum(...) over floats depends on the interpreter, which the
\* repository does not pin: before CPython 3.12 it adds left to right, since
\* 3.12 it also carries the rounding errors of the additions along and adds
\* them at the end (Neumaier's compensated summation).
SumKinds == {"plain", "compensated"}

\* 0 + x1 + x2 + ..., left to right, over floats given in tenths
RECURSIVE FloatSumTo(_, _)
FloatSumTo(s, n) ==
    IF n = 0 THEN Double(0) ELSE FloatAdd(FloatSumTo(s, n - 1), Double(s[n]))

\* one step of the compensated sum: t = hi + x, and the error of that
\* addition, (hi - t) + x or (x - t) + hi by the larger operand, goes to lo
cs_add(total, x) ==
    CHOOSE next \in
        { [hi |-> t,
           lo |-> FloatAdd(total.lo,
                           IF FabsGE(total.hi, x)
                           THEN FloatAdd(FloatSub(total.hi, t), x)
                           ELSE FloatAdd(FloatSub(x, t), total.hi))]
          : t \in {FloatAdd(total.hi, x)} } : TRUE

RECURSIVE CompensatedTo(_, _)
CompensatedTo(s, n) ==
    IF n = 0 THEN [hi |-> Double(0), lo |-> Double(0)]
    ELSE CHOOSE next \in {cs_add(total, Double(s[n]))
                            : total \in {CompensatedTo(s, n - 1)}} : TRUE

\* the compensation is added when it is not zero
CompensatedSum(s) ==
    LET total == CompensatedTo(s, Len(s))
    IN  IF total.lo # Double(0) THEN FloatAdd(total.hi, total.lo) ELSE total.hi

\* sum(...) over floats given in tenths, as the interpreter "how" adds
FloatSum(s, how) ==
    IF how = "plain" THEN FloatSumTo(s, Len(s)) ELSE CompensatedSum(s)

----------------------------------------------------------------------------
(* app.py: fetch helpers. Each takes what safe_api_call ended in and gives    *)
(* what the helper ends in: a value, or the exception that leaves it.        *)

\* side = "LONG" if pos_side == "LONG" else "SHORT"
SideApp(pos) ==
    IF Upper(Get(pos, "positionSide", "")) = "LONG" THEN "LONG" ELSE "SHORT"

NormalizeApp(pos) ==
    [symbol |-> pos.symbol,
     side   |-> SideApp(pos),
     amount |-> Float(Get(pos, "positionAmt", "0")),
     pnl    |-> Float(Get(pos, "unrealizedProfit", "0")),
     margin |-> Float(Get(pos, "margin", "0"))]

NoPositions(type) == [type |-> type, positions |-> <<>>, count |-> 0]

\* fetch_perpetual_positions and fetch_standard_positions, which differ in
\* the endpoint and in the name of the price field only
fetch_positions(type, r) ==
    IF r.kind = "raise" THEN r
    ELSE IF DataFalsy(r.data) THEN Returned(NoPositions(type))
    ELSE IF ~IsDict(r.data) THEN Raised("AttributeError")
    ELSE IF r.data.code # 0 THEN Returned(NoPositions(type))
    ELSE LET open == OpenPositions(r.data.data)
             positions == [i \in 1..Len(open) |-> NormalizeApp(open[i])]
         IN  Returned([type |-> type, positions |-> positions,
                       count |-> Len(positions)])

BalanceOf(type, balance_data, availableKey) ==
    [type      |-> type,
     balance   |-> Float(Get(balance_data, "balance", "0")),
     available |-> Float(Get(balance_data, availableKey, "0")),
     pnl       |-> Float(Get(balance_data, "unrealizedProfit", "0"))]

fetch_perpetual_balance(r) ==
    IF r.kind = "raise" THEN r
    ELSE IF DataFalsy(r.data) THEN Returned(PyNone)
    ELSE IF ~IsDict(r.data) THEN Raised("AttributeError")
    ELSE IF r.data.code # 0 THEN Returned(PyNone)
    ELSE Returned(Some(BalanceOf("perpetual", Get(r.data.data, "balance", EmptyDict),
                                 "availableMargin")))

fetch_standard_balance(r) ==
    IF r.kind = "raise" THEN r
    ELSE IF DataFalsy(r.data) THEN Returned(PyNone)
    ELSE IF ~IsDict(r.data) THEN Raised("AttributeError")
    ELSE IF r.data.code # 0 THEN Returned(PyNone)
    ELSE LET balance_list == r.data.data
             balance_data == IF Len(balance_list) > 0 THEN balance_list[1]
                             ELSE EmptyDict
         IN  Returned(Some(BalanceOf("standard", balance_data, "available")))

----------------------------------------------------------------------------
(* app.py: get_stats_summary, the statistics *)

Pnls(positions) == [i \in 1..Len(positions) |-> positions[i].pnl]
Margins(positions) == [i \in 1..Len(positions) |-> positions[i].margin]

IsWinning(p) == p.pnl > 0
IsLosingOrFlat(p) == p.pnl <= 0
IsLosing(p) == p.pnl < 0

\* the loop over all_positions that fills symbols_agg
RECURSIVE SymbolsAgg(_, _)
SymbolsAgg(positions, agg) ==
    IF positions = <<>> THEN agg
    ELSE LET pos == Head(positions)
             sym == pos.symbol
             old == IF sym \in DOMAIN agg THEN agg[sym]
                    ELSE [pnl |-> Double(0), positions |-> 0, long |-> 0, short |-> 0]
             new == [pnl       |-> FloatAdd(old.pnl, Double(pos.pnl)),
                     positions |-> old.positions + 1,
                     long      |-> old.long + (IF pos.side = "LONG" THEN 1 ELSE 0),
                     short     |-> old.short + (IF pos.side = "LONG" THEN 0 ELSE 1)]
         IN  SymbolsAgg(Tail(positions),
                        [s \in DOMAIN agg \cup {sym} |-> IF s = sym THEN new ELSE agg[s]])

NoSymbols == [s \in {} |-> 0]

\* f"{x:.1f}" for x = winning / total * 100: one decimal, to nearest (no
\* quotient of counts below 16 lies halfway between two tenths)
Format1(winning, total) ==
    LET tenths == (2000 * winning + total) \div (2 * total)
    IN  ToString(tenths \div 10) \o "." \o ToString(tenths % 10)

WinRateAlwaysFormatted(winning, total) ==
    IF total # 0 THEN Format1(winning, total) \o "%" ELSE "0.0%"
WinRate(winning, total) ==
    IF total # 0 THEN Format1(winning, total) \o "%" ELSE "0%"

BalanceOrZero(bal) == IF bal.kind = "some" THEN bal.value.balance ELSE 0

Summary(perpetual, standard, perpetual_bal, standard_bal, how) ==
    LET all_positions == perpetual.positions \o standard.positions
        winning == Len(SelectSeq(all_positions, IsWinning))
        losing == Len(SelectSeq(all_positions, IsLosing))
        perp_balance == BalanceOrZero(perpetual_bal)
        std_balance == BalanceOrZero(standard_bal)
    IN  [total_pnl         |-> FloatSum(Pnls(all_positions), how),
         total_positions   |-> Len(all_positions),
         perpetual_pnl     |-> FloatSum(Pnls(perpetual.positions), how),
         standard_pnl      |-> FloatSum(Pnls(standard.positions), how),
         winning_count     |-> winning,
         losing_count      |-> losing,
         win_rate          |-> WinRate(winning, Len(all_positions)),
         total_margin      |-> SumSeq(Margins(all_positions)),
         perpetual_balance |-> perp_balance,
         standard_balance  |-> std_balance,
         total_balance     |-> perp_balance + std_balance,
         symbols           |-> SymbolsAgg(all_positions, NoSymbols)]

----------------------------------------------------------------------------
(* trading_bot.py: the report's helpers. safe_api_call returns here, it      *)
(* never raises.                                                             *)

\* positionSide when it says LONG or SHORT, else the sign of positionAmt
SideCli(pos) ==
    LET pos_side == Upper(Get(pos, "positionSide", ""))
        amt == Float(Get(pos, "positionAmt", "0"))
    IN  IF pos_side = "LONG" THEN "LONG"
        ELSE IF pos_side = "SHORT" THEN "SHORT"
        ELSE IF amt > 0 THEN "LONG" ELSE "SHORT"

\* abs(amt)
Abs(x) == IF x < 0 THEN -x ELSE x

\* the position as it is printed: the quantity without its sign
PrintedLine(pos) ==
    [symbol |-> Get(pos, "symbol", "N/A"),
     side   |-> SideCli(pos),
     amount |-> Abs(Float(Get(pos, "positionAmt", "0"))),
     pnl    |-> Float(Get(pos, "unrealizedProfit", "0")),
     margin |-> Float(Get(pos, "margin", "0"))]

\* get_swap_positions and get_standard_futures_positions: the count that is
\* returned and the lines that are printed
get_positions(data) ==
    IF DataFalsy(data) \/ ~IsDict(data) THEN [count |-> 0, printed |-> <<>>]
    ELSE IF data.code # 0 THEN [count |-> 0, printed |-> <<>>]
    ELSE LET open == OpenPositions(data.data)
         IN  [count |-> Len(open),
              printed |-> [i \in 1..Len(open) |-> PrintedLine(open[i])]]

get_swap_balance(data) ==
    IF DataFalsy(data) \/ ~IsDict(data) THEN PyNone
    ELSE IF data.code # 0 THEN PyNone
    ELSE LET balance_data == Get(data.data, "balance", EmptyDict)
         IN  IF balance_data.keys = {} THEN PyNone ELSE Some(balance_data)

get_standard_futures_balance(data) ==
    IF DataFalsy(data) \/ ~IsDict(data) THEN PyNone
    ELSE IF data.code # 0 THEN PyNone
    ELSE LET balance_list == data.data
             balance_data == IF Len(balance_list) > 0 THEN balance_list[1]
                             ELSE EmptyDict
         IN  IF balance_data.keys = {} THEN PyNone ELSE Some(balance_data)

\* get_standard_futures_orders(limit): the number of orders displayed
get_standard_futures_orders(data, limit) ==
    IF DataFalsy(data) \/ ~IsDict(data) THEN 0
    ELSE IF data.code # 0 THEN 0
    ELSE IF Len(data.data) < limit THEN Len(data.data) ELSE limit

FieldOrZero(bal, k) == IF bal.kind = "some" THEN Float(Get(bal.value, k, "0")) ELSE 0

\* the totals generate_report prints
ReportTotals(swap_balance, perp_positions, std_balance, std_positions) ==
    [total_balance   |-> FieldOrZero(swap_balance, "balance")
                         + FieldOrZero(std_balance, "balance"),
     total_available |-> FieldOrZero(swap_balance, "availableMargin")
                         + FieldOrZero(std_balance, "available"),
     total_pnl       |-> FieldOrZero(swap_balance, "unrealizedProfit")
                         + FieldOrZero(std_balance, "unrealizedProfit"),
     total_positions |-> perp_positions + std_positions]

----------------------------------------------------------------------------
(* Handlers. A handler is a task: its name, the step it is at, what it has   *)
(* gathered so far, and what it answered once it is done.                    *)

Idle == [name |-> "idle", done |-> FALSE]

NewTask(name) ==
    [name |-> name, step |-> 1, fetches |-> 0, done |-> FALSE,
     acc |-> [none |-> TRUE], out |-> [kind |-> "pending"]]

Finished(t, out) == [t EXCEPT !.done = TRUE, !.out = out]

AppCredential == current_keys
CliCredential == [api_key |-> cli_keys.API_KEY, api_secret |-> cli_keys.API_SECRET]

\* the handler goes on to its next fetch: safe_api_call(endpoint)
Fetch(t, client, keys, endpoint) ==
    [task |-> [t EXCEPT !.fetches = @ + 1],
     call |-> SafeApiCallEnter(client, keys, endpoint, <<>>, "GET",
                               Clock(tasks, t.fetches))]

\* the handler answers; the frame of its last call stays as it ended
Stop(t, out) == [task |-> Finished(t, out), call |-> call]

\* a caller of safe_api_call that hands on what it gets
ContinueDirect(t, r) == Stop(t, r)

\* configure_keys, after the connection test
ContinueConfigure(t, r) ==
    IF r.kind = "raise"
    THEN Stop(t, Returned([status |-> "error", message |-> "Erreur de connexion a BingX"]))
    ELSE IF IsDict(r.data) /\ r.data.code = 0
    THEN Stop(t, Returned([status |-> "success",
                           message |-> "Cles API configurees et testees"]))
    ELSE Stop(t, Returned([status |-> "error", message |-> "Cles API invalides"]))

\* get_status, after its call
ContinueStatus(t, r) ==
    IF r.kind = "raise"
    THEN Stop(t, Returned([connected |-> FALSE, message |-> "Erreur API"]))
    ELSE IF IsDict(r.data) /\ r.data.code = 0
    THEN Stop(t, Returned([connected |-> TRUE, message |-> "Connecte"]))
    ELSE Stop(t, Returned([connected |-> FALSE, message |-> "Erreur de connexion"]))

\* get_perpetual_positions and get_standard_positions: the helper's answer,
\* or the exception that leaves it (FastAPI answers 500 to one that is not an
\* HTTPException)
ContinuePositions(t, r) ==
    LET got == fetch_positions(t.acc.type, r)
    IN  IF got.kind = "raise" /\ got.exc # "HTTPException"
        THEN Stop(t, HTTPException(500, "Internal Server Error"))
        ELSE Stop(t, got)

\* str(e): "status: detail" for an HTTPException, the message of the
\* AttributeError that data.get raises on a text body
StrOfException(e) ==
    IF e.exc = "HTTPException" THEN ToString(e.status) \o ": " \o e.detail
    ELSE "'str' object has no attribute 'get'"

\* get_stats_summary: every exception of the body, an HTTPException of
\* safe_api_call included, is caught and answered with 500 and its text
SummaryFailed(t, e) ==
    Stop(t, HTTPException(500, "Erreur stats: " \o StrOfException(e)))

ContinueSummary(t, r, how) ==
    CASE t.step = 1 ->
            LET got == fetch_positions("perpetual", r)
            IN  IF got.kind = "raise" THEN SummaryFailed(t, got)
                ELSE Fetch([t EXCEPT !.step = 2, !.acc = [perpetual |-> got.data]],
                           "app", AppCredential, EP_STD_POSITIONS)
      [] t.step = 2 ->
            LET got == fetch_positions("standard", r)
            IN  IF got.kind = "raise" THEN SummaryFailed(t, got)
                ELSE Fetch([t EXCEPT !.step = 3,
                              !.acc = [perpetual |-> t.acc.perpetual,
                                       standard |-> got.data]],
                           "app", AppCredential, EP_PERP_BALANCE)
      [] t.step = 3 ->
            LET got == fetch_perpetual_balance(r)
            IN  IF got.kind = "raise" THEN SummaryFailed(t, got)
                ELSE Fetch([t EXCEPT !.step = 4,
                              !.acc = [perpetual |-> t.acc.perpetual,
                                       standard |-> t.acc.standard,
                                       perpetual_bal |-> got.data]],
                           "app", AppCredential, EP_STD_BALANCE)
      [] t.step = 4 ->
            LET got == fetch_standard_balance(r)
            IN  IF got.kind = "raise" THEN SummaryFailed(t, got)
                ELSE Stop(t, Returned(Summary(t.acc.perpetual, t.acc.standard,
                                              t.acc.perpetual_bal, got.data,
                                              how)))

\* generate_report, after each of its five fetches
ContinueReport(t, r) ==
    CASE t.step = 1 ->
            Fetch([t EXCEPT !.step = 2,
                     !.acc = [swap_balance |-> get_swap_balance(r.data)]],
                  "cli", CliCredential, EP_PERP_POSITIONS)
      [] t.step = 2 ->
            LET got == get_positions(r.data)
            IN  Fetch([t EXCEPT !.step = 3,
                         !.acc = [swap_balance |-> t.acc.swap_balance,
                                  perp_positions |-> got.count,
                                  printed |-> got.printed]],
                      "cli", CliCredential, EP_STD_BALANCE)
      [] t.step = 3 ->
            Fetch([t EXCEPT !.step = 4,
                     !.acc = [swap_balance |-> t.acc.swap_balance,
                              perp_positions |-> t.acc.perp_positions,
                              std_balance |-> get_standard_futures_balance(r.data)]],
                  "cli", CliCredential, EP_STD_POSITIONS)
      [] t.step = 4 ->
            LET got == get_positions(r.data)
            IN  Fetch([t EXCEPT !.step = 5,
                         !.acc = [swap_balance |-> t.acc.swap_balance,
                                  perp_positions |-> t.acc.perp_positions,
                                  std_balance |-> t.acc.std_balance,
                                  std_positions |-> got.count,
                                  printed |-> got.printed]],
                      "cli", CliCredential, EP_STD_ORDERS)
      [] t.step = 5 ->
            Stop([t EXCEPT !.acc = [swap_balance |-> t.acc.swap_balance,
                                    perp_positions |-> t.acc.perp_positions,
                                    std_balance |-> t.acc.std_balance,
                                    std_positions |-> t.acc.std_positions,
                                    std_orders |-> get_standard_futures_orders(r.data, 5)]],
                 Returned(ReportTotals(t.acc.swap_balance, t.acc.perp_positions,
                                       t.acc.std_balance, t.acc.std_positions)))

\* "how" is the way this interpreter's sum(...) adds floats
Continue(t, r, how) ==
    CASE t.name = "direct"    -> ContinueDirect(t, r)
      [] t.name = "configure" -> ContinueConfigure(t, r)
      [] t.name = "status"    -> ContinueStatus(t, r)
      [] t.name = "positions" -> ContinuePositions(t, r)
      [] t.name = "summary"   -> ContinueSummary(t, r, how)
      [] t.name = "report"    -> ContinueReport(t, r)

----------------------------------------------------------------------------
(* Signal evaluator *)

MinBars == 21
RsiBuyBelow == 35
RsiSellAbove == 65

\* evaluate(bars, snapshot): HOLD on a short history, else the decision rule
\* on the latest close and the latest RSI
evaluateNotStrict(bars, snapshot) ==
    IF Len(bars) < MinBars THEN "HOLD"
    ELSE LET close == bars[Len(bars)].close
         IN  IF close <= snapshot.lowerBand /\ snapshot.rsi <= RsiBuyBelow THEN "BUY"
             ELSE IF close >= snapshot.upperBand /\ snapshot.rsi >= RsiSellAbove
                  THEN "SELL"
                  ELSE "HOLD"
evaluate(bars, snapshot) ==
    IF Len(bars) < MinBars THEN "HOLD"
    ELSE LET close == bars[Len(bars)].close
         IN  IF close < snapshot.lowerBand /\ snapshot.rsi < RsiBuyBelow THEN "BUY"
             ELSE IF close > snapshot.upperBand /\ snapshot.rsi > RsiSellAbove
                  THEN "SELL"
                  ELSE "HOLD"

----------------------------------------------------------------------------
(* Actions *)

KeyTexts == {"", "key1"}
SecretTexts == {"", "sec1"}
SubmittedKeys == {"", "key2"}
SubmittedSecrets == {"", "sec2"}
EnvTexts == {NONE, "", "env1"}

DirectParams ==
    { <<>>,
      << <<"limit", "50">> >>,
      << <<"symbol", "BTC-USDT">>, <<"limit", "50">> >> }

Methods == {"GET", "POST", "PUT"}

NotLoaded == [API_KEY |-> NONE, API_SECRET |-> NONE]

Init ==
    /\ program \in {"app", "cli"}
    /\ IF program = "app"
       THEN /\ current_keys \in [api_key : KeyTexts, api_secret : SecretTexts]
            /\ cli_keys = NotLoaded
       ELSE /\ current_keys = [api_key |-> "", api_secret |-> ""]
            /\ cli_keys \in [API_KEY : EnvTexts, API_SECRET : EnvTexts]
    /\ task = Idle
    /\ call = NoCall
    /\ tasks = 0
    /\ sg = <<>>
    /\ ev = <<>>
    /\ lp = <<>>

CanStart(prog) == program = prog /\ task = Idle /\ tasks < MaxTasks

Begin(next) ==
    /\ task' = next.task
    /\ call' = next.call

\* some caller invokes safe_api_call(endpoint, params, method) of app.py
StartDirect ==
    /\ CanStart("app")
    /\ \E endpoint \in Endpoints, params \in DirectParams, method \in Methods :
          /\ task' = [NewTask("direct") EXCEPT !.fetches = 1]
          /\ call' = SafeApiCallEnter("app", current_keys, endpoint, params, method,
                                      Clock(tasks, 0))
    /\ UNCHANGED <<current_keys, cli_keys, tasks, program, sg, ev, lp>>

\* the caller passes the mapping of its last call, as safe_api_call left it
\* (params["timestamp"] and params["signature"] were written into it), to
\* another call
CallAgain ==
    /\ program = "app"
    /\ task.name = "direct" /\ task.done
    /\ tasks + 1 < MaxTasks
    /\ task' = [NewTask("direct") EXCEPT !.fetches = 1]
    /\ call' = SafeApiCallEnter("app", current_keys, call.endpoint, call.params,
                                call.method, Clock(tasks + 1, 0))
    /\ tasks' = tasks + 1
    /\ UNCHANGED <<current_keys, cli_keys, program, sg, ev, lp>>

\* if not keys.api_key or not keys.api_secret
KeysMissingIfBothEmpty(keys) == Falsy(keys.api_key) /\ Falsy(keys.api_secret)
KeysMissing(keys) == Falsy(keys.api_key) \/ Falsy(keys.api_secret)

\* POST /api/config; the task keeps the request body in acc.keys
configure_keys ==
    /\ CanStart("app")
    /\ \E keys \in [api_key : SubmittedKeys, api_secret : SubmittedSecrets] :
          LET t == [NewTask("configure") EXCEPT !.acc = [keys |-> keys]]
          IN  IF KeysMissing(keys)
              THEN /\ Begin(Stop(t, HTTPException(400, "Cles API manquantes")))
                   /\ UNCHANGED current_keys
              ELSE /\ current_keys' = [api_key |-> keys.api_key,
                                       api_secret |-> keys.api_secret]
                   /\ Begin(Fetch(t, "app", current_keys', EP_PERP_BALANCE))
    /\ UNCHANGED <<cli_keys, tasks, program, sg, ev, lp>>

\* GET /api/status
get_status ==
    /\ CanStart("app")
    /\ IF Falsy(current_keys.api_key)
       THEN Begin(Stop(NewTask("status"),
                       Returned([connected |-> FALSE,
                                 message |-> "Cles API non configurees"])))
       ELSE Begin(Fetch(NewTask("status"), "app", AppCredential, EP_PERP_BALANCE))
    /\ UNCHANGED <<current_keys, cli_keys, tasks, program, sg, ev, lp>>

\* GET /api/positions/perpetual and GET /api/positions/standard
get_positions_endpoint ==
    /\ CanStart("app")
    /\ \E type \in {"perpetual", "standard"} :
          Begin(Fetch([NewTask("positions") EXCEPT !.acc = [type |-> type]],
                      "app", AppCredential,
                      IF type = "perpetual" THEN EP_PERP_POSITIONS
                      ELSE EP_STD_POSITIONS))
    /\ UNCHANGED <<current_keys, cli_keys, tasks, program, sg, ev, lp>>

\* GET /api/stats/summary
get_stats_summary ==
    /\ CanStart("app")
    /\ Begin(Fetch(NewTask("summary"), "app", AppCredential, EP_PERP_POSITIONS))
    /\ UNCHANGED <<current_keys, cli_keys, tasks, program, sg, ev, lp>>

\* python trading_bot.py
generate_report ==
    /\ CanStart("cli") /\ tasks = 0
    /\ IF Falsy(cli_keys.API_KEY) \/ Falsy(cli_keys.API_SECRET)
       THEN Begin(Stop(NewTask("report"), Returned(PyNone)))
       ELSE Begin(Fetch(NewTask("report"), "cli", CliCredential, EP_PERP_BALANCE))
    /\ UNCHANGED <<current_keys, cli_keys, tasks, program, sg, ev, lp>>

\* one pass of the retry loop: the request and what it ends in
NetAttempt ==
    /\ call.phase = "request"
    /\ IF Sends(call)
       THEN \E o \in Outcomes(call.endpoint) : call' = AfterAttempt(call, o)
       ELSE call' = AfterAttempt(call, [kind |-> "error", msg |-> "UnboundLocalError"])
    /\ UNCHANGED <<current_keys, cli_keys, task, tasks, program, sg, ev, lp>>

\* time.sleep(1) returns
SleepDone ==
    /\ call.phase = "sleep"
    /\ call' = AfterSleep(call)
    /\ UNCHANGED <<current_keys, cli_keys, task, tasks, program, sg, ev, lp>>

\* safe_api_call has returned or raised: its caller goes on
Resume ==
    /\ call.phase \in {"returned", "raised"}
    /\ ~task.done
    /\ \E how \in SumKinds : Begin(Continue(task, call.ret, how))
    /\ UNCHANGED <<current_keys, cli_keys, tasks, program, sg, ev, lp>>

\* the handler has answered; the process waits for the next request
Finish ==
    /\ task.done
    /\ task' = Idle
    /\ call' = NoCall
    /\ tasks' = tasks + 1
    /\ UNCHANGED <<current_keys, cli_keys, program, sg, ev, lp>>

Next ==
    \/ StartDirect
    \/ CallAgain
    \/ configure_keys
    \/ get_status
    \/ generate_report
    \/ NetAttempt
    \/ SleepDone
    \/ Resume
    \/ Finish

Spec == Init /\ [][Next]_vars

NextAgg ==
    \/ get_positions_endpoint
    \/ get_stats_summary
    \/ generate_report
    \/ NetAttempt
    \/ SleepDone
    \/ Resume

SpecAgg == Init /\ [][NextAgg]_vars

----------------------------------------------------------------------------
(* Properties of the API client, checked under Spec *)

InCall == call.phase # "none"
CallOver == call.phase \in {"returned", "raised"}

AppUnauthenticated ==
    program = "app" /\ (Falsy(current_keys.api_key) \/ Falsy(current_keys.api_secret))
CliUnauthenticated ==
    program = "cli" /\ (Falsy(cli_keys.API_KEY) \/ Falsy(cli_keys.API_SECRET))

\* C1: while the credential's key or secret is empty or absent, a call through
\* app.py's client has failed with 401 before any request or delay, whatever
\* its endpoint, parameters and method; and the command-line report makes no
\* call at all.
C1_UnauthenticatedFailsBeforeNetwork ==
    /\ (InCall /\ AppUnauthenticated) =>
          /\ call.phase = "raised"
          /\ call.ret = Unauthenticated401
          /\ call.sent = <<>>
          /\ call.history = <<>>
          /\ call.sleeps = 0
    /\ CliUnauthenticated =>
          /\ call = NoCall
          /\ task.name = "report" => (task.done /\ task.fetches = 0)

C1_Witness ==
    /\ InCall /\ AppUnauthenticated
    /\ current_keys.api_key = "key1"
    /\ call.method = "POST"
    /\ call.endpoint = EP_STD_ORDERS
    /\ Len(call.params) = 2
    /\ call.ret = Unauthenticated401

AllTimeouts(h) == \A i \in 1..Len(h) : h[i] = "timeout"

\* C2: a call whose three attempts all ended in a timeout is over: it has made
\* exactly 3 requests and slept exactly twice, it does not sleep or send again,
\* and it surfaces the timeout (app.py raises 504; trading_bot.py prints the
\* timeout error and returns None).
C2_ThreeTimeouts ==
    (InCall /\ Len(call.history) >= MAX_RETRIES /\ AllTimeouts(call.history)) =>
        /\ CallOver
        /\ Len(call.history) = MAX_RETRIES
        /\ Len(call.sent) = 3
        /\ call.sleeps = 2
        /\ call.client = "app" =>
              (call.phase = "raised" /\ call.ret = HTTPException(504, "API Timeout"))
        /\ call.client = "cli" =>
              /\ call.ret = Returned(PyNone)
              /\ call.log = "Erreur: Timeout apres 3 tentatives"

C2_Witness ==
    /\ InCall
    /\ call.client = "app"
    /\ call.history = <<"timeout", "timeout", "timeout">>
    /\ call.phase = "raised"
    /\ call.ret.status = 504

\* the attempts at which an HTTP exchange completed
Completed(h) == {i \in 1..Len(h) : h[i] = "response"}

\* C3: once an attempt's HTTP exchange has completed, it is the call's last
\* attempt k, with k <= 3: the call has returned that exchange's body, after
\* exactly k requests and k - 1 delays, whatever the k - 1 failures before it
\* were.
C3_FirstCompletedAttemptReturns ==
    (InCall /\ Completed(call.history) # {}) =>
        LET k == Len(call.history)
        IN  /\ Completed(call.history) = {k}
            /\ k <= MAX_RETRIES
            /\ call.phase = "returned"
            /\ call.ret = Returned(call.response)
            /\ Len(call.sent) = k
            /\ call.sleeps = k - 1

C3_Witness ==
    /\ InCall
    /\ call.history = <<"timeout", "error", "response">>
    /\ call.phase = "returned"
    /\ call.ret.data.kind = "json"
    /\ call.ret.data.code = 0
    /\ call.sleeps = 2

\* a body that is not JSON, or whose embedded status code is not 0
Unwelcome(body) ==
    body.kind = "text" \/ (body.kind = "json" /\ body.code # 0)

\* C4: an exchange that answered with a non-zero embedded code or with a body
\* that is not JSON ended the call at that attempt: the call returned the body
\* as it came (parsed, or the raw text) and raised nothing, with no request
\* and no delay after it.
C4_ContentIsNotRetried ==
    (InCall /\ call.response # PyNone /\ Unwelcome(call.response)) =>
        /\ call.phase = "returned"
        /\ call.ret.kind = "return"
        /\ call.ret.data = call.response
        /\ call.history[Len(call.history)] = "response"
        /\ Len(call.sent) = Len(call.history)
        /\ call.sleeps = Len(call.history) - 1
        /\ (Len(call.history) = 1 => (Len(call.sent) = 1 /\ call.sleeps = 0))

C4_Witness ==
    /\ InCall
    /\ call.history = <<"response">>
    /\ call.response = JsonRejected
    /\ call.ret = Returned(JsonRejected)
    /\ call.sleeps = 0

----------------------------------------------------------------------------
(* sign_request on its own: a mapping, the same mapping filled in another    *)
(* order, and the signatures of both                                         *)

SignKeys == {"limit", "signature", "symbol", "timestamp"}
SignValues == {"5", "BTC-USDT"}
SignSecrets == {"sec1", "sec2"}

DistinctKeys(d) == \A i, j \in 1..Len(d) : d[i][1] = d[j][1] => i = j

SignParams ==
    {d \in UNION {[1..n -> SignKeys \X SignValues] : n \in 0..MaxSignParams} :
        DistinctKeys(d)}

\* the dicts that hold the pairs of d, inserted in any order
Reinsertions(d) ==
    {[i \in 1..Len(d) |-> d[f[i]]] :
        f \in {g \in [1..Len(d) -> 1..Len(d)] :
                 \A i, j \in 1..Len(d) : g[i] = g[j] => i = j}}

Signed(params, secret) ==
    [query |-> Query(params), signature |-> sign_request(params, secret)]

Quiet ==
    /\ program = "app"
    /\ current_keys = [api_key |-> "", api_secret |-> ""]
    /\ cli_keys = NotLoaded
    /\ task = Idle
    /\ call = NoCall
    /\ tasks = 0

InitSign ==
    /\ Quiet
    /\ sg \in [pc : {"input"}, params : SignParams, secret : SignSecrets]
    /\ ev = <<>>
    /\ lp = <<>>

Reinsert ==
    /\ sg.pc = "input"
    /\ \E other \in Reinsertions(sg.params) :
          sg' = [pc |-> "reinserted", params |-> sg.params, secret |-> sg.secret,
                 other |-> other]
    /\ UNCHANGED <<current_keys, cli_keys, task, call, tasks, program, ev, lp>>

SignBoth ==
    /\ sg.pc = "reinserted"
    /\ sg' = [pc |-> "signed", params |-> sg.params, secret |-> sg.secret,
              other |-> sg.other,
              first |-> Signed(sg.params, sg.secret),
              second |-> Signed(sg.other, sg.secret)]
    /\ UNCHANGED <<current_keys, cli_keys, task, call, tasks, program, ev, lp>>

SignAgain ==
    /\ sg.pc = "signed"
    /\ sg' = [pc |-> "resigned", params |-> sg.params, secret |-> sg.secret,
              other |-> sg.other, first |-> sg.first, second |-> sg.second,
              again |-> Signed(sg.params, sg.secret)]
    /\ UNCHANGED <<current_keys, cli_keys, task, call, tasks, program, ev, lp>>

NextSign == Reinsert \/ SignBoth \/ SignAgain

SpecSign == InitSign /\ [][NextSign]_vars

\* key=value for the keys of the mapping, taken in the order of KeyOrder
CanonicalString(params) ==
    LET present(k) == HasKey(params, k)
        ks == SelectSeq(KeyOrder, present)
    IN  Join([i \in 1..Len(ks) |-> ks[i] \o "=" \o DictGet(params, ks[i])])

\* C5: two mappings with the same pairs, inserted in different orders, give
\* the same string to sign, the key=value pairs joined by & in the order of
\* the keys, and the same signature; signing again gives the same result.
C5_SignatureIgnoresInsertionOrder ==
    (sg # <<>> /\ sg.pc \in {"signed", "resigned"}) =>
        /\ sg.first.query = CanonicalString(sg.params)
        /\ sg.second.query = sg.first.query
        /\ sg.second.signature = sg.first.signature
        /\ sg.pc = "resigned" => sg.again = sg.first

C5_Witness ==
    /\ sg # <<>> /\ sg.pc = "resigned"
    /\ sg.params = << <<"timestamp", "5">>, <<"symbol", "BTC-USDT">>, <<"limit", "5">> >>
    /\ sg.other = << <<"symbol", "BTC-USDT">>, <<"limit", "5">>, <<"timestamp", "5">> >>
    /\ sg.first.query = "limit=5&symbol=BTC-USDT&timestamp=5"
    /\ sg.second.signature = sg.first.signature

----------------------------------------------------------------------------
(* evaluate on its own *)

BaseClose == 100
LastCloses == {90, 95, 100, 105, 110}
Snapshots == [lowerBand : {95, 100}, upperBand : {100, 105}, rsi : {30, 35, 50, 65, 70}]

\* n bars, oldest first, the latest closing at "last"
Bars(n, last) == [i \in 1..n |-> [close |-> IF i = n THEN last ELSE BaseClose]]

BarSeqs == {Bars(n, last) : n \in 0..MaxBars, last \in LastCloses}

InitEval ==
    /\ Quiet
    /\ sg = <<>>
    /\ ev \in [pc : {"input"}, bars : BarSeqs, snapshot : Snapshots]
    /\ lp = <<>>

Evaluate ==
    /\ ev.pc = "input"
    /\ ev' = [pc |-> "done", bars |-> ev.bars, snapshot |-> ev.snapshot,
              signal |-> evaluate(ev.bars, ev.snapshot)]
    /\ UNCHANGED <<current_keys, cli_keys, task, call, tasks, program, sg, lp>>

NextEval == Evaluate

SpecEval == InitEval /\ [][NextEval]_vars

\* C10: evaluate answers BUY, SELL or HOLD: HOLD on fewer than 21 bars (none
\* included); else BUY exactly when the latest close is below the lower band
\* and the RSI below 35, SELL exactly when the latest close is above the upper
\* band and the RSI above 65, HOLD otherwise; never both BUY and SELL.
C10_EvaluateRule ==
    (ev # <<>> /\ ev.pc = "done") =>
        LET n == Len(ev.bars)
            buy == ev.bars[n].close < ev.snapshot.lowerBand /\ ev.snapshot.rsi < 35
            sell == ev.bars[n].close > ev.snapshot.upperBand /\ ev.snapshot.rsi > 65
        IN  /\ ev.signal \in {"BUY", "SELL", "HOLD"}
            /\ n < 21 => ev.signal = "HOLD"
            /\ n >= 21 =>
                  /\ ev.signal = "BUY" <=> buy
                  /\ ev.signal = "SELL" <=> sell
                  /\ ev.signal = "HOLD" <=> (~buy /\ ~sell)
                  /\ ~(buy /\ sell)

C10_Witness ==
    /\ ev # <<>> /\ ev.pc = "done"
    /\ Len(ev.bars) = 21
    /\ ev.bars[21].close = 90
    /\ ev.snapshot.rsi = 30
    /\ ev.signal = "BUY"

----------------------------------------------------------------------------
(* Properties of the account aggregator, checked under SpecAgg *)

\* the entry carries a quantity and the quantity is not zero
HasQuantity(p) == "positionAmt" \in p.keys /\ Float(p.positionAmt) # 0

Carried(raw) == SelectSeq(raw, HasQuantity)

\* "kept" holds the entries of "raw" that carry a quantity, one for one;
\* the report prints a quantity without its sign, the backend keeps the sign
KeepsCarried(kept, raw, printed) ==
    LET carried == Carried(raw)
    IN  /\ Len(kept) = Len(carried)
        /\ \A i \in 1..Len(kept) :
              /\ kept[i].symbol = carried[i].symbol
              /\ kept[i].amount = IF printed
                                  THEN Abs(Float(carried[i].positionAmt))
                                  ELSE Float(carried[i].positionAmt)
              /\ kept[i].amount # 0
              /\ kept[i].pnl = Float(carried[i].unrealizedProfit)
              /\ kept[i].margin = Float(carried[i].margin)

\* the caller is about to take up a position list the exchange accepted
PositionsArrived ==
    /\ call.phase = "returned"
    /\ ~task.done
    /\ call.endpoint \in {EP_PERP_POSITIONS, EP_STD_POSITIONS}
    /\ call.ret.data.kind = "json"
    /\ call.ret.data.code = 0

\* what the handler made of the list it has just taken up (in the next state)
KeptNow(t, u) ==
    CASE t.name = "positions"               -> u.out.data.positions
      [] t.name = "summary" /\ t.step = 1   -> u.acc.perpetual.positions
      [] t.name = "summary" /\ t.step = 2   -> u.acc.standard.positions
      [] t.name = "report"                  -> u.acc.printed

CountNow(t, u) ==
    CASE t.name = "positions"               -> u.out.data.count
      [] t.name = "summary" /\ t.step = 1   -> u.acc.perpetual.count
      [] t.name = "summary" /\ t.step = 2   -> u.acc.standard.count
      [] t.name = "report" /\ t.step = 2    -> u.acc.perp_positions
      [] t.name = "report" /\ t.step = 4    -> u.acc.std_positions

SummaryDone == task.name = "summary" /\ task.done
SummaryProduced == SummaryDone /\ task.out.kind = "return"

AllKept == task.acc.perpetual.positions \o task.acc.standard.positions

SymbolsOf(positions) == {positions[i].symbol : i \in 1..Len(positions)}

\* every field of the summary is made of the kept positions alone
SummaryOfKeptOnly ==
    SummaryProduced =>
        LET sm == task.out.data
        IN  /\ \A i \in 1..Len(AllKept) : AllKept[i].amount # 0
            /\ sm.total_positions = Len(AllKept)
            /\ sm.total_pnl \in {FloatSum(Pnls(AllKept), how) : how \in SumKinds}
            /\ sm.total_margin = SumSeq(Margins(AllKept))
            /\ sm.winning_count + sm.losing_count <= Len(AllKept)
            /\ sm.winning_count = Cardinality({i \in 1..Len(AllKept) : AllKept[i].pnl > 0})
            /\ sm.losing_count = Cardinality({i \in 1..Len(AllKept) : AllKept[i].pnl < 0})
            /\ DOMAIN sm.symbols = SymbolsOf(AllKept)
            /\ \A sym \in DOMAIN sm.symbols :
                  sm.symbols[sym].positions =
                      Cardinality({i \in 1..Len(AllKept) : AllKept[i].symbol = sym})

C6_Step ==
    /\ PositionsArrived =>
          /\ KeepsCarried(KeptNow(task, task'), call.ret.data.data, task.name = "report")
          /\ CountNow(task, task') = Len(Carried(call.ret.data.data))

\* C6: an entry whose quantity is 0 or missing is in no position list the
\* handlers keep, return or print, is not counted, and adds to no field of
\* the summary, whatever PnL and margin it carries.
C6_ZeroQuantityExcluded == []SummaryOfKeptOnly /\ [][C6_Step]_vars

C6_Witness ==
    /\ task.name = "positions" /\ task.done
    /\ call.ret.kind = "return"
    /\ call.ret.data.kind = "json" /\ call.ret.data.code = 0
    /\ Len(call.ret.data.data) = 2
    /\ ~HasQuantity(call.ret.data.data[1])
    /\ Float(call.ret.data.data[1].unrealizedProfit) # 0
    /\ HasQuantity(call.ret.data.data[2])
    /\ task.out.data.count = 1

\* the side the entry states, else the side its quantity has
StatedSide(p) ==
    IF "positionSide" \in p.keys /\ p.positionSide # ""
    THEN Upper(p.positionSide)
    ELSE IF Float(p.positionAmt) > 0 THEN "LONG" ELSE "SHORT"

SidesAsStated(kept, raw) ==
    LET carried == Carried(raw)
    IN  /\ Len(kept) = Len(carried)
        /\ \A i \in 1..Len(kept) : kept[i].side = StatedSide(carried[i])

RollupCountsSides ==
    SummaryProduced =>
        \A sym \in DOMAIN task.out.data.symbols :
            /\ task.out.data.symbols[sym].long =
                  Cardinality({i \in 1..Len(AllKept) :
                                  AllKept[i].symbol = sym /\ AllKept[i].side = "LONG"})
            /\ task.out.data.symbols[sym].short =
                  Cardinality({i \in 1..Len(AllKept) :
                                  AllKept[i].symbol = sym /\ AllKept[i].side = "SHORT"})

C7_Step ==
    /\ PositionsArrived => SidesAsStated(KeptNow(task, task'), call.ret.data.data)
    /\ RollupCountsSides'

\* C7: the side of every open position is the side its entry states, when it
\* states one; else LONG for a positive quantity and SHORT for a negative
\* one. This on every path: the lists the web API returns and sums up in the
\* rollups, and the lines the report prints.
C7_SideAsStatedElseBySign == [][C7_Step]_vars

\* the fetch that has just ended did not give an accepted answer
LastFetchFailed ==
    call.ret.kind = "raise" \/ call.ret.data.kind = "none" \/ Unwelcome(call.ret.data)

\* C8: with a populated credential the summary is always produced; a failed
\* fetch counts as an empty list or a balance of 0 (here, for the balance
\* fetched last: the total is then the other account's balance).
C8_SummarySurvivesFailedFetch ==
    (SummaryDone /\ ~AppUnauthenticated) =>
        /\ task.out.kind = "return"
        /\ (task.step = 4 /\ LastFetchFailed) =>
              /\ task.out.data.standard_balance = 0
              /\ task.out.data.total_balance = task.out.data.perpetual_balance

\* the text of x percent to one decimal, x = winning / total * 100
NearestTenth(winning, total) ==
    CHOOSE t \in 0..1000 :
        /\ 2 * total * t - 2000 * winning <= total
        /\ 2000 * winning - 2 * total * t <= total

PercentText(winning, total) ==
    LET t == NearestTenth(winning, total)
    IN  ToString(t \div 10) \o "." \o ToString(t % 10) \o "%"

\* the last fetch of the summary left no exception to its caller
LastFetchHandled ==
    call.ret.kind = "return" /\ (DataFalsy(call.ret.data) \/ IsDict(call.ret.data))

\* C9: the win rate is the share of the open positions of both account types
\* that are winning; with no open position it is exactly "0%" and the summary
\* is produced all the same.
C9_WinRate ==
    /\ SummaryProduced =>
          LET total == Len(AllKept)
              winning == Cardinality({i \in 1..total : AllKept[i].pnl > 0})
          IN  /\ total = 0 => task.out.data.win_rate = "0%"
              /\ total > 0 => task.out.data.win_rate = PercentText(winning, total)
    /\ (SummaryDone /\ task.step = 4 /\ LastFetchHandled) => task.out.kind = "return"

C9_Witness ==
    /\ SummaryProduced
    /\ task.out.data.total_positions = 0
    /\ task.out.data.win_rate = "0%"
    /\ task.out.data.total_balance > 0

----------------------------------------------------------------------------
(* The decision loop:                                                        *)
(* FETCH -> (empty? -> BACKOFF_AND_RETRY : COMPUTE) -> DECIDE ->             *)
(* (BUY|SELL => SUBMIT_ORDER; HOLD => no-op) -> SLEEP(interval) -> FETCH     *)

\* a cycle at its start: nothing fetched, computed, decided or ordered yet
NewCycle ==
    [pc |-> "FETCH", fetched |-> "none", bars |-> <<>>, snapshot |-> PyNone,
     signal |-> "none", orders |-> 0, order |-> "none"]

\* what a fetch of the candles ends in: bars, no data, or a failed call
FetchResults ==
    {[kind |-> "failed", bars |-> <<>>]}
    \cup {[kind |-> IF b = <<>> THEN "empty" ELSE "bars", bars |-> b] : b \in BarSeqs}

AfterFetchWithoutBackoff(result) == "COMPUTE"
AfterFetch(result) == IF result.bars = <<>> THEN "BACKOFF" ELSE "COMPUTE"

AfterDecide(signal) == IF signal \in {"BUY", "SELL"} THEN "SUBMIT_ORDER" ELSE "SLEEP"

OrderResults == {"placed", "rejected"}

InitLoop ==
    /\ Quiet
    /\ sg = <<>>
    /\ ev = <<>>
    /\ lp = NewCycle

LoopFetch ==
    /\ lp.pc = "FETCH"
    /\ \E result \in FetchResults :
          lp' = [lp EXCEPT !.pc = AfterFetch(result), !.fetched = result.kind,
                           !.bars = result.bars]
    /\ UNCHANGED <<current_keys, cli_keys, task, call, tasks, program, sg, ev>>

\* the short fixed sleep after an empty fetch is over
LoopBackoffDone ==
    /\ lp.pc = "BACKOFF"
    /\ lp' = NewCycle
    /\ UNCHANGED <<current_keys, cli_keys, task, call, tasks, program, sg, ev>>

\* the indicators of the bars that were fetched
LoopCompute ==
    /\ lp.pc = "COMPUTE"
    /\ \E snapshot \in Snapshots :
          lp' = [lp EXCEPT !.pc = "DECIDE", !.snapshot = snapshot]
    /\ UNCHANGED <<current_keys, cli_keys, task, call, tasks, program, sg, ev>>

LoopDecide ==
    /\ lp.pc = "DECIDE"
    /\ LET signal == evaluate(lp.bars, lp.snapshot)
       IN  lp' = [lp EXCEPT !.pc = AfterDecide(signal), !.signal = signal]
    /\ UNCHANGED <<current_keys, cli_keys, task, call, tasks, program, sg, ev>>

LoopSubmitOrder ==
    /\ lp.pc = "SUBMIT_ORDER"
    /\ \E result \in OrderResults :
          lp' = [lp EXCEPT !.pc = "SLEEP", !.orders = @ + 1, !.order = result]
    /\ UNCHANGED <<current_keys, cli_keys, task, call, tasks, program, sg, ev>>

\* the sleep of one candle interval is over
LoopSleepDone ==
    /\ lp.pc = "SLEEP"
    /\ lp' = NewCycle
    /\ UNCHANGED <<current_keys, cli_keys, task, call, tasks, program, sg, ev>>

NextLoop ==
    \/ LoopFetch
    \/ LoopBackoffDone
    \/ LoopCompute
    \/ LoopDecide
    \/ LoopSubmitOrder
    \/ LoopSleepDone

SpecLoop == InitLoop /\ [][NextLoop]_vars

\* the step submits an order
Submits == lp'.orders > lp.orders

\* nothing of COMPUTE, DECIDE or an order has happened in this cycle
OnlyFetched == lp.snapshot = PyNone /\ lp.signal = "none" /\ lp.orders = 0

C11_Step ==
    /\ Submits =>
          /\ lp.fetched = "bars" /\ lp.bars # <<>>
          /\ lp.signal \in {"BUY", "SELL"}
          /\ lp.orders = 0 /\ lp'.orders = 1
    /\ (lp.pc = "FETCH" /\ lp'.bars = <<>>) => lp'.pc = "BACKOFF"
    /\ lp.pc = "BACKOFF" => (OnlyFetched /\ lp'.pc = "FETCH")
    /\ (lp'.pc = "FETCH") => lp.pc \in {"SLEEP", "BACKOFF"}

C11_Running ==
    /\ lp.orders <= 1
    /\ lp.pc = "BACKOFF" => (lp.bars = <<>> /\ OnlyFetched)
    /\ ENABLED NextLoop

\* C11: an order is submitted only in a cycle that fetched bars and decided
\* BUY or SELL, and at most once per cycle; a cycle whose fetch is empty goes
\* through the back-off to the next fetch with no COMPUTE, DECIDE or order; a
\* fetch starts only when a sleep has completed; and the loop always has a
\* next step.
C11_LoopDiscipline == []C11_Running /\ [][C11_Step]_vars

C11_Witness ==
    /\ lp # <<>>
    /\ lp.pc = "SLEEP"
    /\ lp.signal = "SELL"
    /\ lp.orders = 1
    /\ Len(lp.bars) = MinBars

----------------------------------------------------------------------------
(* More properties of the API client, checked under Spec *)

\* all three attempts of the call of app.py have failed
AllFailed ==
    /\ InCall /\ call.client = "app"
    /\ Len(call.history) = MAX_RETRIES
    /\ Completed(call.history) = {}

\* C12: when all 3 attempts have failed, app.py's call raises 504 if the third
\* attempt timed out and 502 carrying the third attempt's exception if it
\* failed otherwise, whatever the first two failures were.
C12_ThirdFailureDecides ==
    AllFailed =>
        /\ call.phase = "raised"
        /\ call.history[3] = "timeout" => call.ret = HTTPException(504, "API Timeout")
        /\ call.history[3] = "error" =>
              call.ret = HTTPException(502, "Erreur API: " \o call.errors[3])

C12_Witness ==
    /\ AllFailed
    /\ call.history = <<"timeout", "timeout", "error">>
    /\ call.ret.status = 502

\* the call got past the credential check and signed its parameters
Authenticated ==
    /\ InCall
    /\ call.ret # Unauthenticated401
    /\ call.ret # Raised("AttributeError")

SecretInUse ==
    IF call.client = "app" THEN current_keys.api_secret ELSE cli_keys.API_SECRET

IsNotSignature(pair) == pair[1] # "signature"

\* C13: the signature that goes out was computed over the timestamp and the
\* other parameters of the request and over no signature field, also when the
\* caller passes in a mapping that an earlier call has stamped and signed.
C13_SignatureNotSignedOver ==
    Authenticated =>
        LET unsigned == SelectSeq(call.params, IsNotSignature)
        IN  /\ HasKey(unsigned, "timestamp")
            /\ HasKey(call.params, "signature")
            /\ DictGet(call.params, "signature")
                  = HmacSha256Hex(SecretInUse, Query(unsigned))

----------------------------------------------------------------------------
(* More properties of the account aggregator, checked under SpecAgg *)

\* the sum of f over the keys in S
RECURSIVE SumOver(_, _)
SumOver(f, S) ==
    IF S = {} THEN 0
    ELSE LET k == CHOOSE x \in S : TRUE
         IN  f[k] + SumOver(f, S \ {k})

\* the sum, left to right over the symbols in some order, of their PnLs
RECURSIVE FloatSumOver(_, _)
FloatSumOver(f, S) ==
    IF S = {} THEN Double(0)
    ELSE LET k == CHOOSE x \in S : TRUE
         IN  FloatAdd(FloatSumOver(f, S \ {k}), f[k])

\* winning, losing and the counts of the symbols
CountsAgree(sm) ==
    LET idx == 1..Len(AllKept)
        syms == DOMAIN sm.symbols
    IN  /\ sm.winning_count = Cardinality({i \in idx : AllKept[i].pnl > 0})
        /\ sm.losing_count = Cardinality({i \in idx : AllKept[i].pnl < 0})
        /\ sm.winning_count + sm.losing_count <= sm.total_positions
        /\ (sm.winning_count + sm.losing_count = sm.total_positions)
              <=> (\A i \in idx : AllKept[i].pnl # 0)
        /\ \A sym \in syms :
              sm.symbols[sym].positions = sm.symbols[sym].long + sm.symbols[sym].short
        /\ SumOver([sym \in syms |-> sm.symbols[sym].positions], syms)
              = sm.total_positions

\* a and b are the same but for rounding: the same tenths, and less than
\* 10^-14 (7205 units) apart
Close(at, ad, bt, bd) == at = bt /\ ad - bd < 7205 /\ bd - ad < 7205

\* C14 as stated: the counts agree, the symbols' PnLs add up to the total PnL,
\* and the total PnL equals perpetual PnL + standard PnL.
C14_SumsEqual ==
    SummaryProduced =>
        LET sm == task.out.data
            syms == DOMAIN sm.symbols
        IN  /\ CountsAgree(sm)
            /\ FloatSumOver([sym \in syms |-> sm.symbols[sym].pnl], syms) = sm.total_pnl
            /\ sm.total_pnl = FloatAdd(sm.perpetual_pnl, sm.standard_pnl)

\* C14: in a summary, winning counts the open positions with PnL > 0 and
\* losing those with PnL < 0, so that winning + losing <= total positions,
\* with equality exactly when no position has PnL 0; each symbol's position
\* count is its long count plus its short count and these counts add up to the
\* total positions; the symbols' PnLs add up to the total PnL, and the
\* perpetual PnL plus the standard PnL is the total PnL, to within rounding.
C14_CountsConsistent ==
    SummaryProduced =>
        LET sm == task.out.data
            syms == DOMAIN sm.symbols
        IN  /\ CountsAgree(sm)
            /\ Close(SumOver([sym \in syms |-> sm.symbols[sym].pnl.t], syms),
                     SumOver([sym \in syms |-> sm.symbols[sym].pnl.d], syms),
                     sm.total_pnl.t, sm.total_pnl.d)
            /\ Close(sm.perpetual_pnl.t + sm.standard_pnl.t,
                     sm.perpetual_pnl.d + sm.standard_pnl.d,
                     sm.total_pnl.t, sm.total_pnl.d)

\* a summary of four positions, one of them with PnL 0, whose total PnL is
\* neither the float sum of the symbols' PnLs nor perpetual PnL + standard PnL
C14_Witness ==
    /\ SummaryProduced
    /\ task.out.data.total_positions = 4
    /\ task.out.data.winning_count = 2
    /\ task.out.data.losing_count = 1
    /\ Cardinality(DOMAIN task.out.data.symbols) = 2
    /\ task.out.data.total_pnl # FloatAdd(task.out.data.perpetual_pnl,
                                          task.out.data.standard_pnl)
    /\ task.out.data.total_pnl #
          FloatSumOver([sym \in DOMAIN task.out.data.symbols
                           |-> task.out.data.symbols[sym].pnl],
                       DOMAIN task.out.data.symbols)

----------------------------------------------------------------------------
(* The stored credential, checked under Spec *)

\* the step takes up a POST /api/config
ConfigureArrives == task.name = "idle" /\ task'.name = "configure"

C15_Step ==
    /\ ConfigureArrives =>
          LET keys == task'.acc.keys
          IN  IF Falsy(keys.api_key) \/ Falsy(keys.api_secret)
              THEN /\ task'.done
                   /\ task'.out = HTTPException(400, "Cles API manquantes")
                   /\ current_keys' = current_keys
                   /\ call.phase = "none" /\ call' = call
              ELSE /\ current_keys' = keys
                   /\ call'.phase = "request"
                   /\ call'.endpoint = EP_PERP_BALANCE
    /\ ~ConfigureArrives => current_keys' = current_keys
    /\ (program = "app" /\ call'.phase = "request") =>
          call'.headers.XBXAPIKEY = current_keys'.api_key

\* C15: configure_keys stores the submitted pair exactly when both fields are
\* non-empty. A request with an empty field is answered 400, stores nothing
\* and makes no call; an accepted pair is stored before the connection test
\* and nothing but another accepted request changes it afterwards, however the
\* test ends, so every later call goes out with it.
C15_StoredIffBothGiven == [][C15_Step]_vars

C15_Witness ==
    /\ task.name = "configure" /\ task.done
    /\ task.out.kind = "return"
    /\ task.out.data.status = "error"
    /\ call.history = <<"timeout", "timeout", "timeout">>
    /\ task.acc.keys = [api_key |-> "key2", api_secret |-> "sec2"]
    /\ current_keys = task.acc.keys

----------------------------------------------------------------------------
(* The requests of one call, checked under Spec *)

\* the clock when the call in progress started
StartClock == Clock(tasks, task.fetches - 1)

KeyInUse == IF call.client = "app" THEN current_keys.api_key ELSE cli_keys.API_KEY

\* C16: every request a call has sent, the first and each retry, carries the
\* same endpoint, parameters and header: the timestamp taken when the call
\* started, the signature made then, and the key of the credential.
C16_RetriesResendTheSameRequest ==
    (InCall /\ call.sent # <<>>) =>
        \A i \in 1..Len(call.sent) :
            /\ call.sent[i] = call.sent[1]
            /\ call.sent[i].params = call.params
            /\ call.sent[i].headers = call.headers
            /\ DictGet(call.sent[i].params, "timestamp") = ToString(StartClock)
            /\ HasKey(call.sent[i].params, "signature")
            /\ call.sent[i].headers.XBXAPIKEY = KeyInUse

C16_Witness ==
    /\ InCall
    /\ call.history = <<"error", "timeout", "response">>
    /\ Len(call.sent) = 3
    /\ call.sent[3] = call.sent[1]
    /\ Len(call.params) = 4
    /\ tasks = 1

====
